---- MODULE Spec2Model ----
(***************************************************************************)
(* Model of the virtio-net MMIO device of src/vmm/src/devices/net/         *)
(* virtio_net.rs: the VirtioNet device configuration, its register         *)
(* dispatch (register_read / register_write) and the two MMIO entry points *)
(* virtio_mmio_read / virtio_mmio_write.                                   *)
(*                                                                         *)
(* Representation.  TLC integers are 32-bit, so                            *)
(*   - u64 feature bitmasks are sets of bit positions (subsets of 0..63);  *)
(*   - a DeviceSpecific offset (u64) is four 16-bit limbs, low limb first; *)
(*   - u32 / u16 register values are integers (the inputs keep them small);*)
(*   - a byte buffer is a sequence of 0..255.                              *)
(* A Rust panic (slice index out of range, copy_from_slice length mismatch,*)
(* panic!()) ends the run: `panicked` becomes TRUE and no action is        *)
(* enabled afterwards.                                                     *)
(***************************************************************************)
EXTENDS Integers, Sequences, FiniteSets, TLC

\* ------------------------------------------------------------------ bounds
\* longest buffer a caller passes to an MMIO access
MaxLen == 4
\* largest small DeviceSpecific byte offset tried (config space is 0..16)
MaxOffset == 17
\* entries of boot_params.e820_table (128 in linux_loader's bootparam)
E820TableLen == 3
\* the guest makes at most this many TX chains available
MaxChains == 2

\* --------------------------------------------------------- program constants
\* virtio_bindings::virtio_net feature bit numbers used by VirtioNetConfig::new
\* kernel.rs: the RAM memory type of an e820 entry
E820_RAM == 1
VIRTIO_NET_F_MTU == 3
VIRTIO_NET_F_MAC == 5
VIRTIO_NET_F_STATUS == 16
VIRTIO_NET_F_SPEED_DUPLEX == 63

\* ------------------------------------------------------------ integer helpers
RECURSIVE Pow2(_)
Pow2(n) == IF n = 0 THEN 1 ELSE 2 * Pow2(n - 1)

\* the set of bit positions set in a non-negative integer below 2^31
BitsOf(n) == {i \in 0..30 : (n \div Pow2(i)) % 2 = 1}

RECURSIVE SumPow2(_)
SumPow2(S) == IF S = {} THEN 0
              ELSE LET b == CHOOSE x \in S : TRUE IN Pow2(b) + SumPow2(S \ {b})

\* bitwise or of two small integers (Rust `|`)
BitOr(a, b) == SumPow2(BitsOf(a) \cup BitsOf(b))

\* byte i (1-based) of the little-endian encoding of v
RECURSIVE ByteAt(_, _)
ByteAt(v, i) == IF i = 1 THEN v % 256 ELSE ByteAt(v \div 256, i - 1)

\* to_le_bytes of an integer, n bytes wide
to_le_bytes(v, n) == [i \in 1..n |-> ByteAt(v, i)]

\* to_le_bytes of a bit set, n bytes wide
bits_to_le_bytes(S, n) ==
  [i \in 1..n |-> SumPow2({b - 8 * (i - 1) : b \in {x \in S : x \div 8 = i - 1}})]

\* from_le_bytes of a byte array
RECURSIVE from_le_bytes(_)
from_le_bytes(s) == IF Len(s) = 0 THEN 0 ELSE s[1] + 256 * from_le_bytes(Tail(s))

\* <[u8] as TryInto<[u8; n]>>::try_into succeeds iff the lengths agree
try_into_ok(s, n) == Len(s) = n

\* `x as u32` and `x >> 32` on a u64 bit set
as_u32(S) == {b \in S : b < 32}
shr32(S) == {b - 32 : b \in {x \in S : x >= 32}}

\* device-status bits of the virtio specification: DRIVER_OK is bit 2,
\* FAILED is bit 7
VIRTIO_CONFIG_S_DRIVER_OK == Pow2(2)
VIRTIO_CONFIG_S_FAILED == Pow2(7)

\* ---------------------------------------------------------------- u64 limbs
Limb == Pow2(16)
U64(o) == <<o, 0, 0, 0>>
U64Max == <<Limb - 1, Limb - 1, Limb - 1, Limb - 1>>
\* bitwise complement of a u64 (Rust `!` on an integer)
not_u64(x) == [i \in 1..4 |-> (Limb - 1) - x[i]]
\* x < n for a u64 x and a small n
lt_small(x, n) == x[2] = 0 /\ x[3] = 0 /\ x[4] = 0 /\ x[1] < n

\* ------------------------------------------------------------------ inputs
\* register values a driver writes: 0, 1 and the DRIVER_OK and FAILED
\* status bits
Vals == {0, 1, VIRTIO_CONFIG_S_DRIVER_OK, VIRTIO_CONFIG_S_FAILED}
\* initial contents of a caller's read buffer
FillBytes == {0, 255}
\* buffers handed to virtio_mmio_write: the LE encoding of a value, cut or
\* zero-extended to 0..MaxLen bytes
WriteBuffers == {to_le_bytes(v, n) : v \in Vals, n \in 0..MaxLen}
\* buffers handed to virtio_mmio_read
ReadBuffers == {[i \in 1..n |-> f] : f \in FillBytes, n \in 0..MaxLen}

\* the variants of vm_device::VirtioMmioOffset the device matches on
Registers ==
  {"MagicValue", "VirtioVersion", "DeviceId", "VendorId", "HostFeatures",
   "HostFeaturesSel", "GuestFeatures", "GuestFeaturesSel", "GuestPageSize",
   "QueueSel", "QueueNumMax", "QueueNum", "QueueAlign", "QueuePfn",
   "QueueNotify", "InterruptStatus", "InterruptAck", "Status"}
\* DeviceSpecific(o): every small byte offset, and the largest u64
DeviceSpecificOffsets == {U64(o) : o \in 0..MaxOffset} \cup {U64Max}
Offsets ==
  {[reg |-> r, arg |-> U64(0)] : r \in Registers}
    \cup {[reg |-> "DeviceSpecific", arg |-> a] : a \in DeviceSpecificOffsets}

\* --------------------------------------------------------------- the device
VARIABLES
  device_config,   \* VirtioNet.device_config: guest_page_size and virtio_config
  hooks,           \* the VirtioDeviceActions hooks that have been entered
  panicked,        \* a Rust panic has unwound out of the device
  last,            \* the last access: operation, offset, buffer in, buffer out, result
  host_sel_written,  \* {value of the most recent HostFeaturesSel write}, {} before it
  guest_sel_written, \* {value of the most recent GuestFeaturesSel write}, {} before it
  tx_avail,        \* guest memory: the TX chains made available, each as its bytes
  tx_used,         \* guest memory: the used-ring entries posted for TX chains
  host_tx,         \* the buffers handed to the host network descriptor
  params           \* kernel.rs: the boot_params under construction (e820 part)

ring_vars == <<tx_avail, tx_used, host_tx>>
vars == <<device_config, hooks, panicked, last, host_sel_written, guest_sel_written,
          tx_avail, tx_used, host_tx, params>>

\* VirtioNetConfig::config_vec: the fields of virtio_net_config, little-endian
config_vec(config) ==
  config.mac \o to_le_bytes(config.status, 2)
             \o to_le_bytes(config.max_virtqueue_pairs, 2)
             \o to_le_bytes(config.mtu, 2)
             \o to_le_bytes(config.speed, 4)
             \o to_le_bytes(config.duplex, 1)

\* virtio_device::VirtioConfig::new(device_features, queues, config_space)
VirtioConfig_new(device_features, queues, config_space) ==
  [device_features |-> device_features,
   driver_features |-> {},
   device_features_select |-> 0,
   driver_features_select |-> 0,
   device_status |-> 0,
   queue_select |-> 0,
   queues |-> queues,
   config_space |-> config_space,
   interrupt_status |-> {}]

\* VirtioNetConfig::new: the feature *bit numbers* are or-ed together as if
\* they were masks, the queue vector is empty
VirtioNetConfig_new ==
  [virtio_config |->
     VirtioConfig_new(
       BitsOf(BitOr(BitOr(VIRTIO_NET_F_STATUS, VIRTIO_NET_F_MAC),
                    BitOr(VIRTIO_NET_F_SPEED_DUPLEX, VIRTIO_NET_F_MTU))),
       <<>>,
       config_vec([mac |-> <<13, 13, 13, 13, 13, 13>>, status |-> 0,
                   max_virtqueue_pairs |-> 0, mtu |-> 1500, speed |-> 1000,
                   duplex |-> 1])),
   guest_page_size |-> 0]

\* VirtioNet::is_reading_register: `!(*offset as usize) < len * 8` negates
\* the offset bitwise before comparing
is_reading_register(cfg, offset) ==
  IF offset.reg = "DeviceSpecific"
    THEN lt_small(not_u64(offset.arg), Len(cfg.virtio_config.config_space) * 8)
    ELSE TRUE

\* results of a register access
Ok(cfg) == [res |-> "Ok", cfg |-> cfg]
Err(cfg) == [res |-> "Err", cfg |-> cfg]
Panic(cfg) == [res |-> "Panic", cfg |-> cfg]

\* u32::from_le_bytes(data[0..4]) and u16::from_le_bytes(data[0..2]): the
\* slice panics on a shorter buffer, which every arm checks first
u32_of(data) == from_le_bytes(SubSeq(data, 1, 4))
u16_of(data) == from_le_bytes(SubSeq(data, 1, 2))

\* ------------------------------------------------------- register_write arms
\* HostFeaturesSel: device_features_select = u32 of the first four bytes
WriteHostFeaturesSel(cfg, data) ==
  IF Len(data) < 4 THEN Panic(cfg)
  ELSE IF ~try_into_ok(SubSeq(data, 1, 4), 4) THEN Err(cfg)
  ELSE Ok([cfg EXCEPT !.virtio_config.device_features_select = u32_of(data)])

\* GuestFeatures decoded from four bytes and shifted into driver_features on
\* top of what is there, instead of replacing it
WriteGuestFeatures_Accumulate(cfg, data) ==
  IF Len(data) < 4 THEN Panic(cfg)
  ELSE Ok([cfg EXCEPT !.virtio_config.driver_features =
             {b + 32 : b \in {x \in @ : x < 32}} \cup BitsOf(u32_of(data))])

\* GuestFeatures: the four-byte slice is converted to the eight-byte array
\* u64::from_le_bytes takes, which fails, so the arm returns RegisterError
\* before it touches driver_features
WriteGuestFeatures(cfg, data) ==
  IF Len(data) < 4 THEN Panic(cfg)
  ELSE IF ~try_into_ok(SubSeq(data, 1, 4), 8) THEN Err(cfg)
  ELSE LET features == BitsOf(from_le_bytes(SubSeq(data, 1, 4)))
       IN Ok([cfg EXCEPT !.virtio_config.driver_features =
                IF cfg.virtio_config.driver_features_select # 0
                  THEN shr32(features) ELSE features])

\* GuestFeaturesSel: driver_features_select = u32 of the first four bytes
WriteGuestFeaturesSel(cfg, data) ==
  IF Len(data) < 4 THEN Panic(cfg)
  ELSE IF ~try_into_ok(SubSeq(data, 1, 4), 4) THEN Err(cfg)
  ELSE Ok([cfg EXCEPT !.virtio_config.driver_features_select = u32_of(data)])

\* GuestPageSize: guest_page_size = u16 of the first two bytes
WriteGuestPageSize(cfg, data) ==
  IF Len(data) < 2 THEN Panic(cfg)
  ELSE IF ~try_into_ok(SubSeq(data, 1, 2), 2) THEN Err(cfg)
  ELSE Ok([cfg EXCEPT !.guest_page_size = u16_of(data)])

\* QueueSel: queue_select = (u32 of the first four bytes) as u16
WriteQueueSel(cfg, data) ==
  IF Len(data) < 4 THEN Panic(cfg)
  ELSE IF ~try_into_ok(SubSeq(data, 1, 4), 4) THEN Err(cfg)
  ELSE Ok([cfg EXCEPT !.virtio_config.queue_select = u32_of(data) % 65536])

\* QueueNum: queues[queue_select] is indexed first (out of range panics),
\* then the size is decoded and stored
WriteQueueNum(cfg, data) ==
  LET q == cfg.virtio_config.queue_select + 1 IN
  IF q > Len(cfg.virtio_config.queues) THEN Panic(cfg)
  ELSE IF Len(data) < 2 THEN Panic(cfg)
  ELSE IF ~try_into_ok(SubSeq(data, 1, 2), 2) THEN Err(cfg)
  ELSE Ok([cfg EXCEPT !.virtio_config.queues[q].size = u16_of(data)])

\* QueueAlign: printed and ignored
WriteQueueAlign(cfg, data) == Ok(cfg)

\* QueuePfn: the pfn is decoded, then queues[queue_select] is indexed (out
\* of range panics) and its descriptor table set to pfn * guest_page_size
WriteQueuePfn(cfg, data) ==
  LET q == cfg.virtio_config.queue_select + 1 IN
  IF Len(data) < 4 THEN Panic(cfg)
  ELSE IF ~try_into_ok(SubSeq(data, 1, 4), 4) THEN Err(cfg)
  ELSE IF q > Len(cfg.virtio_config.queues) THEN Panic(cfg)
  ELSE Ok([cfg EXCEPT !.virtio_config.queues[q].desc_table =
             u32_of(data) * cfg.guest_page_size])

\* QueueNotify that raises the named queue's interrupt bit whatever the
\* device status
WriteQueueNotify_Unguarded(cfg, data) ==
  IF Len(data) < 4 THEN Panic(cfg)
  ELSE Ok([cfg EXCEPT !.virtio_config.interrupt_status = @ \cup {u32_of(data) % 2}])

\* QueueNotify: the value is decoded and printed
WriteQueueNotify(cfg, data) ==
  IF Len(data) < 4 THEN Panic(cfg)
  ELSE IF ~try_into_ok(SubSeq(data, 1, 4), 4) THEN Err(cfg)
  ELSE Ok(cfg)

\* InterruptAck: the value is decoded and printed
WriteInterruptAck(cfg, data) ==
  IF Len(data) < 4 THEN Panic(cfg)
  ELSE IF ~try_into_ok(SubSeq(data, 1, 4), 4) THEN Err(cfg)
  ELSE Ok(cfg)

\* Status: the value is decoded and printed
WriteStatus(cfg, data) ==
  IF Len(data) < 4 THEN Panic(cfg)
  ELSE IF ~try_into_ok(SubSeq(data, 1, 4), 4) THEN Err(cfg)
  ELSE Ok(cfg)

\* a register without a write arm that accepts the write and stores the value
\* as the queue selector
WriteOther_Accepting(cfg, offset, data) ==
  IF Len(data) < 4 THEN Err(cfg)
  ELSE Ok([cfg EXCEPT !.virtio_config.queue_select = (u32_of(data) + 1) % 65536])

\* every other register (`_ =>`): RegisterError, the buffer is not looked at
WriteOther(cfg, offset, data) == Err(cfg)

\* VirtioNet::register_write
register_write(cfg, offset, data) ==
  CASE offset.reg = "HostFeaturesSel" -> WriteHostFeaturesSel(cfg, data)
    [] offset.reg = "GuestFeatures" -> WriteGuestFeatures(cfg, data)
    [] offset.reg = "GuestFeaturesSel" -> WriteGuestFeaturesSel(cfg, data)
    [] offset.reg = "GuestPageSize" -> WriteGuestPageSize(cfg, data)
    [] offset.reg = "QueueSel" -> WriteQueueSel(cfg, data)
    [] offset.reg = "QueueNum" -> WriteQueueNum(cfg, data)
    [] offset.reg = "QueueAlign" -> WriteQueueAlign(cfg, data)
    [] offset.reg = "QueuePfn" -> WriteQueuePfn(cfg, data)
    [] offset.reg = "QueueNotify" -> WriteQueueNotify(cfg, data)
    [] offset.reg = "InterruptAck" -> WriteInterruptAck(cfg, data)
    [] offset.reg = "Status" -> WriteStatus(cfg, data)
    [] OTHER -> WriteOther(cfg, offset, data)

\* -------------------------------------------------------- register_read arms
\* a read arm returns the buffer it leaves behind
Out(res, data) == [res |-> res, data |-> data]

\* data.copy_from_slice(&v.to_le_bytes()) for a u32 v: the lengths must agree
copy_u32(data, bytes) ==
  IF Len(data) # Len(bytes) THEN Out("Panic", data) ELSE Out("Ok", bytes)

\* MagicValue, VirtioVersion, DeviceId, VendorId: constants as u32
ReadMagicValue(cfg, data) == copy_u32(data, to_le_bytes(1953655158, 4))

\* VirtioVersion that reports the legacy version 1
ReadVirtioVersion_Legacy(cfg, data) == copy_u32(data, to_le_bytes(1, 4))

ReadVirtioVersion(cfg, data) == copy_u32(data, to_le_bytes(2, 4))
ReadDeviceId(cfg, data) == copy_u32(data, to_le_bytes(1, 4))
ReadVendorId(cfg, data) == copy_u32(data, to_le_bytes(6900, 4))

\* QueueNumMax: the constant 0x1000
ReadQueueNumMax(cfg, data) == copy_u32(data, to_le_bytes(4096, 4))

\* QueuePfn: the placeholder 0x12341234
ReadQueuePfn(cfg, data) == copy_u32(data, to_le_bytes(305402420, 4))

\* HostFeatures that returns the low half whatever the selector
ReadHostFeatures_NoSelect(cfg, data) ==
  copy_u32(data, bits_to_le_bytes(as_u32(cfg.virtio_config.device_features), 4))

\* HostFeatures: the half of device_features picked by device_features_select
ReadHostFeatures(cfg, data) ==
  LET device_features ==
        IF cfg.virtio_config.device_features_select # 0
          THEN shr32(cfg.virtio_config.device_features)
          ELSE cfg.virtio_config.device_features
  IN copy_u32(data, bits_to_le_bytes(as_u32(device_features), 4))

\* InterruptStatus: the literal 0 is returned, the loaded value is dropped
ReadInterruptStatus(cfg, data) == copy_u32(data, to_le_bytes(0, 4))

\* Status: device_status as u32
ReadStatus(cfg, data) ==
  copy_u32(data, to_le_bytes(cfg.virtio_config.device_status, 4))

\* virtio_device::VirtioDevice::read_config, called by the DeviceSpecific arm:
\* copies config_space[offset .. min(offset + len, config_len)] to the front
\* of the buffer, nothing at or past the end of the config space
read_config(cfg, offset, data) ==
  LET config_space == cfg.virtio_config.config_space
      config_len == Len(config_space)
  IN IF ~lt_small(offset, config_len) THEN data
     ELSE LET o == offset[1]
              end == IF o + Len(data) < config_len THEN o + Len(data) ELSE config_len
              read_len == end - o
          IN [i \in 1..Len(data) |->
                IF i <= read_len THEN config_space[o + i] ELSE data[i]]

\* VirtioNet::register_read
register_read(cfg, field, data) ==
  CASE field.reg = "MagicValue" -> ReadMagicValue(cfg, data)
    [] field.reg = "VirtioVersion" -> ReadVirtioVersion(cfg, data)
    [] field.reg = "DeviceId" -> ReadDeviceId(cfg, data)
    [] field.reg = "VendorId" -> ReadVendorId(cfg, data)
    [] field.reg = "HostFeatures" -> ReadHostFeatures(cfg, data)
    [] field.reg = "QueueNumMax" -> ReadQueueNumMax(cfg, data)
    [] field.reg = "QueuePfn" -> ReadQueuePfn(cfg, data)
    [] field.reg = "InterruptStatus" -> ReadInterruptStatus(cfg, data)
    [] field.reg = "Status" -> ReadStatus(cfg, data)
    [] field.reg = "DeviceSpecific" -> Out("Ok", read_config(cfg, field.arg, data))
    [] OTHER -> Out("Err", data)

\* ------------------------------------------------------ kernel.rs: e820 map
\* one boot_e820_entry
e820_entry(addr, size, type_) == [addr |-> addr, size |-> size, type_ |-> type_]

\* boot_params::default(): no entry, the table zeroed (the part of boot_params
\* that add_e820_entry touches)
boot_params_default ==
  [e820_entries |-> 0,
   e820_table |-> [i \in 1..E820TableLen |-> e820_entry(0, 0, 0)]]

\* the outcome of an e820 call: its result and the boot_params it leaves
E820Out(res, p) == [res |-> res, params |-> p]

\* add_e820_entry with the table-full test off by one
add_e820_entry_OffByOne(p, addr, size, mem_type) ==
  IF p.e820_entries > E820TableLen % 256
    THEN E820Out("E820Configuration", p)
    ELSE E820Out("Ok",
           [e820_entries |-> (p.e820_entries + 1) % 256,
            e820_table |-> IF p.e820_entries < E820TableLen
                             THEN [p.e820_table EXCEPT ![p.e820_entries + 1] =
                                     e820_entry(addr, size, mem_type)]
                             ELSE p.e820_table])

\* add_e820_entry: e820_entries (u8) is compared with the table length cast to
\* u8; the slot e820_table[e820_entries] is written and the count raised
add_e820_entry(p, addr, size, mem_type) ==
  IF p.e820_entries >= E820TableLen % 256
    THEN E820Out("E820Configuration", p)
    ELSE E820Out("Ok",
           [e820_entries |-> (p.e820_entries + 1) % 256,
            e820_table |-> [p.e820_table EXCEPT ![p.e820_entries + 1] =
                              e820_entry(addr, size, mem_type)]])

\* u64::checked_sub: <<>> for None, <<d>> for Some(d)
checked_sub(a, b) == IF a >= b THEN <<a - b>> ELSE <<>>

\* add_e820_entry_from_ranges: one add_e820_entry per range, in order; the
\* first error returns at once and keeps the entries added before it
RECURSIVE add_e820_entry_from_ranges(_, _, _)
add_e820_entry_from_ranges(p, ranges, mem_type) ==
  IF ranges = <<>> THEN E820Out("Ok", p)
  ELSE LET range == Head(ranges)
           size == checked_sub(range.end, range.start)
       IN IF size = <<>> THEN E820Out("MemoryRegionStartPastEnd", p)
          ELSE LET r == add_e820_entry(p, range.start, size[1], mem_type)
               IN IF r.res # "Ok" THEN r
                  ELSE add_e820_entry_from_ranges(r.params, Tail(ranges), mem_type)

\* ------------------------------------------------------------------ actions
\* the record kept of an access; repeat: the access before it was the same
Access(op, offset, data, out, res) ==
  [op |-> op, offset |-> offset, data |-> data, out |-> out, res |-> res,
   repeat |-> last.op = op /\ last.offset = offset /\ last.data = data]

NoOffset == [reg |-> "none", arg |-> U64(0)]

\* VirtioNet::new
Init ==
  /\ device_config = VirtioNetConfig_new
  /\ hooks = {}
  /\ panicked = FALSE
  /\ last = [op |-> "new", offset |-> NoOffset, data |-> <<>>, out |-> <<>>,
             res |-> "Ok", repeat |-> FALSE]
  /\ host_sel_written = {}
  /\ guest_sel_written = {}
  /\ tx_avail = <<>>
  /\ tx_used = <<>>
  /\ host_tx = <<>>
  /\ params = boot_params_default

\* MutVirtioMmioDevice::virtio_mmio_read: the register is read only when
\* is_reading_register allows it; a RegisterError is printed and dropped
virtio_mmio_read(offset, data) ==
  /\ ~panicked
  /\ LET r == IF is_reading_register(device_config, offset)
                THEN register_read(device_config, offset, data)
                ELSE Out("Skipped", data)
     IN /\ last' = Access("read", offset, data, r.data, r.res)
        /\ panicked' = (r.res = "Panic")
  /\ UNCHANGED <<device_config, hooks, host_sel_written, guest_sel_written>>
  /\ UNCHANGED <<ring_vars, params>>

\* MutVirtioMmioDevice::virtio_mmio_write: the register is written only when
\* is_reading_register allows it; a RegisterError is printed and dropped
virtio_mmio_write(offset, data) ==
  /\ ~panicked
  /\ LET r == IF is_reading_register(device_config, offset)
                THEN register_write(device_config, offset, data)
                ELSE [res |-> "Skipped", cfg |-> device_config]
     IN /\ device_config' = r.cfg
        /\ last' = Access("write", offset, data, data, r.res)
        /\ panicked' = (r.res = "Panic")
  /\ host_sel_written' =
       IF offset.reg = "HostFeaturesSel" /\ Len(data) >= 4
         THEN {u32_of(data)} ELSE host_sel_written
  /\ guest_sel_written' =
       IF offset.reg = "GuestFeaturesSel" /\ Len(data) >= 4
         THEN {u32_of(data)} ELSE guest_sel_written
  /\ UNCHANGED hooks
  /\ UNCHANGED <<ring_vars, params>>

\* VirtioDeviceActions::activate: prints and panics
activate ==
  /\ ~panicked
  /\ hooks' = hooks \cup {"activate"}
  /\ panicked' = TRUE
  /\ last' = Access("activate", NoOffset, <<>>, <<>>, "Panic")
  /\ UNCHANGED <<device_config, host_sel_written, guest_sel_written>>
  /\ UNCHANGED <<ring_vars, params>>

\* VirtioDeviceActions::reset: prints and panics
reset ==
  /\ ~panicked
  /\ hooks' = hooks \cup {"reset"}
  /\ panicked' = TRUE
  /\ last' = Access("reset", NoOffset, <<>>, <<>>, "Panic")
  /\ UNCHANGED <<device_config, host_sel_written, guest_sel_written>>
  /\ UNCHANGED <<ring_vars, params>>

\* InterruptSignal.maybe_notify(queue_index): the device sets the queue's bit
\* of the interrupt-status bitmask (the shared AtomicU8 of VirtioConfig)
maybe_notify(queue_index) ==
  /\ ~panicked
  /\ queue_index \notin device_config.virtio_config.interrupt_status
  /\ device_config' =
       [device_config EXCEPT !.virtio_config.interrupt_status = @ \cup {queue_index}]
  /\ last' = Access("maybe_notify", [reg |-> "none", arg |-> U64(queue_index)],
                    <<>>, <<>>, "Ok")
  /\ UNCHANGED <<hooks, panicked, host_sel_written, guest_sel_written>>
  /\ UNCHANGED <<ring_vars, params>>

MmioRead(Offs) ==
  ~panicked /\ \E offset \in Offs, data \in ReadBuffers : virtio_mmio_read(offset, data)
MmioWrite(Offs) ==
  ~panicked /\ \E offset \in Offs, data \in WriteBuffers : virtio_mmio_write(offset, data)
Notify == ~panicked /\ \E queue_index \in {0, 1} : maybe_notify(queue_index)

RegisterOffsets(regs) == {o \in Offsets : o.reg \in regs}

\* the device-specific configuration space, with one ordinary register
ConfigOffsets == RegisterOffsets({"DeviceSpecific", "MagicValue"})
NextConfig ==
  \/ MmioRead(ConfigOffsets)
  \/ MmioWrite(ConfigOffsets)
  \/ activate
  \/ reset
  \/ Notify
SpecConfig == Init /\ [][NextConfig]_vars

\* status, queue and interrupt registers
StatusOffsets ==
  RegisterOffsets({"Status", "GuestPageSize", "QueueSel", "QueueNum", "QueuePfn",
                   "QueueAlign", "QueueNotify", "InterruptStatus", "InterruptAck"})
NextStatus ==
  \/ MmioRead(StatusOffsets)
  \/ MmioWrite(StatusOffsets)
  \/ activate
  \/ reset
  \/ Notify
SpecStatus == Init /\ [][NextStatus]_vars

\* feature negotiation registers, with the status register
FeatureOffsets ==
  RegisterOffsets({"HostFeatures", "HostFeaturesSel", "GuestFeatures",
                   "GuestFeaturesSel", "QueueSel", "Status"})
NextFeatures ==
  \/ MmioRead(FeatureOffsets)
  \/ MmioWrite(FeatureOffsets)
  \/ activate
  \/ reset
  \/ Notify
SpecFeatures == Init /\ [][NextFeatures]_vars

\* registers without a write arm, DeviceSpecific, and the queue selector
ReadOnlyRegisters ==
  {"MagicValue", "VirtioVersion", "DeviceId", "VendorId", "HostFeatures",
   "QueueNumMax", "InterruptStatus", "DeviceSpecific"}
\* DeviceSpecific at the first and last byte of the config space, the first
\* byte past it, and the largest u64
BoundaryOffsets == {U64(0), U64(16), U64(17), U64Max}
ReadOnlyOffsets ==
  {o \in RegisterOffsets(ReadOnlyRegisters \cup {"QueueSel"}) :
     o.reg = "DeviceSpecific" => o.arg \in BoundaryOffsets}
NextReadOnly ==
  \/ MmioRead(ReadOnlyOffsets)
  \/ MmioWrite(ReadOnlyOffsets)
  \/ activate
  \/ reset
  \/ Notify
SpecReadOnly == Init /\ [][NextReadOnly]_vars

\* queue configuration registers
QueueOffsets ==
  RegisterOffsets({"GuestPageSize", "QueueSel", "QueueNumMax", "QueueNum",
                   "QueuePfn", "QueueNotify"})
NextQueue ==
  \/ MmioRead(QueueOffsets)
  \/ MmioWrite(QueueOffsets)
  \/ activate
  \/ reset
  \/ Notify
SpecQueue == Init /\ [][NextQueue]_vars

\* the guest driver makes one more TX chain available: it writes the chain's
\* descriptors and the available-ring entry into guest memory
guest_add_tx(chain) ==
  /\ ~panicked
  /\ Len(tx_avail) < MaxChains
  /\ tx_avail' = Append(tx_avail, chain)
  /\ UNCHANGED <<device_config, hooks, panicked, last, host_sel_written,
                 guest_sel_written, tx_used, host_tx, params>>

\* the bytes of the TX chains the guest offers
TxChains == {<<1>>, <<2, 3>>}
GuestAddTx == \E chain \in TxChains : guest_add_tx(chain)

\* the device status and the queue notification, with the guest filling the
\* TX ring
NotifyOffsets == RegisterOffsets({"Status", "QueueNotify"})
NextNotify ==
  \/ MmioRead(NotifyOffsets)
  \/ MmioWrite(NotifyOffsets)
  \/ activate
  \/ reset
  \/ Notify
  \/ GuestAddTx
SpecNotify == Init /\ [][NextNotify]_vars

\* inputs of the e820 calls
E820Addrs == {0, 4096}
E820Sizes == {4095}
E820Types == {E820_RAM, 2}
\* vm_allocator::RangeInclusive: start and end, end included
Ranges == {[start |-> 0, end |-> 4095], [start |-> 4096, end |-> 8191]}
MaxRanges == E820TableLen + 1
RangeLists == UNION {[1..n -> Ranges] : n \in 0..MaxRanges}

\* the ranges argument as the record of a call keeps it: start, end, start, ...
RECURSIVE RangeBounds(_)
RangeBounds(ranges) ==
  IF ranges = <<>> THEN <<>>
  ELSE <<Head(ranges).start, Head(ranges).end>> \o RangeBounds(Tail(ranges))

\* the record kept of an e820 call: the call, its arguments and its result
E820Call(op, args, r) ==
  /\ params' = r.params
  /\ last' = Access(op, NoOffset, args, <<>>, r.res)
  /\ UNCHANGED <<device_config, hooks, panicked, host_sel_written,
                 guest_sel_written, ring_vars>>

\* a call of add_e820_entry on the boot_params under construction
AddE820Entry ==
  \E addr \in E820Addrs, size \in E820Sizes, mem_type \in E820Types :
    E820Call("add_e820_entry", <<addr, size, mem_type>>,
             add_e820_entry(params, addr, size, mem_type))

\* a call of add_e820_entry_from_ranges on the boot_params under construction
AddE820EntryFromRanges ==
  \E ranges \in RangeLists :
    E820Call("add_e820_entry_from_ranges", RangeBounds(ranges),
             add_e820_entry_from_ranges(params, ranges, E820_RAM))

\* build_bootparams: fresh boot_params, then the allocator's RAM ranges
build_bootparams ==
  \E ranges \in RangeLists :
    E820Call("build_bootparams", RangeBounds(ranges),
             add_e820_entry_from_ranges(boot_params_default, ranges, E820_RAM))

NextE820 ==
  \/ AddE820Entry
  \/ AddE820EntryFromRanges
  \/ build_bootparams
SpecE820 == Init /\ [][NextE820]_vars

\* ------------------------------------------------------------------- claims
Wrote(acc, reg) == acc.op = "write" /\ acc.offset.reg = reg
Read(acc, reg) == acc.op = "read" /\ acc.offset.reg = reg
\* the bits set in a little-endian byte buffer
BitsOfBytes(bytes) ==
  {i \in 0..(8 * Len(bytes) - 1) : (bytes[(i \div 8) + 1] \div Pow2(i % 8)) % 2 = 1}
virtio_config == device_config.virtio_config
\* every bit of mask is set in the status value
HasBits(status, mask) == BitsOf(mask) \subseteq BitsOf(status)

\* the 17-byte layout of the configuration space: MAC 13:13:13:13:13:13,
\* status 0, max_virtqueue_pairs 0, MTU 1500, speed 1000, duplex 1
ConfigLayout == <<13, 13, 13, 13, 13, 13, 0, 0, 0, 0, 220, 5, 232, 3, 0, 0, 1>>

\* C1: a virtio_mmio_read of DeviceSpecific(o), o in 0..16, leaves in the
\* caller's buffer the configuration-space bytes from offset o on.
C1_ConfigRoundTrip ==
  (Read(last, "DeviceSpecific") /\ lt_small(last.offset.arg, 17))
    => \A i \in 1..Len(last.out) :
         last.offset.arg[1] + i <= 17
           => last.out[i] = ConfigLayout[last.offset.arg[1] + i]

\* C2: a Status read that follows a 4-byte Status write of v returns v.
C2_StatusReadsBackWritten ==
  [][(Wrote(last, "Status") /\ Len(last.data) = 4
        /\ Read(last', "Status") /\ Len(last'.data) = 4)
       => last'.out = last.data]_vars

\* C3: a write of 0 to Status leaves device-status 0, interrupt-status 0 and
\* the queue configuration (selector, queues) as constructed, and a Status
\* read that follows returns 0.
C3_StatusZeroResets ==
  [][/\ (Wrote(last', "Status") /\ Len(last'.data) >= 4 /\ u32_of(last'.data) = 0)
          => /\ virtio_config'.device_status = 0
             /\ virtio_config'.interrupt_status = {}
             /\ virtio_config'.queue_select = VirtioNetConfig_new.virtio_config.queue_select
             /\ virtio_config'.queues = VirtioNetConfig_new.virtio_config.queues
     /\ (Wrote(last, "Status") /\ Len(last.data) >= 4 /\ u32_of(last.data) = 0
           /\ Read(last', "Status") /\ Len(last'.data) = 4)
          => last'.out = to_le_bytes(0, 4)]_vars

\* C4: after a Status write that sets DRIVER_OK the activate hook has run and
\* returned; after a Status write of 0 or one that sets FAILED the reset hook
\* has run.
C4_StatusWriteRunsHooks ==
  (Wrote(last, "Status") /\ Len(last.data) >= 4)
    => /\ HasBits(u32_of(last.data), VIRTIO_CONFIG_S_DRIVER_OK)
            => ("activate" \in hooks /\ ~panicked)
       /\ (u32_of(last.data) = 0 \/ HasBits(u32_of(last.data), VIRTIO_CONFIG_S_FAILED))
            => "reset" \in hooks

\* C5: a QueueNotify write made while device_status lacks DRIVER_OK leaves
\* the device configuration (status, features, selectors, queues,
\* interrupt-status, config space, page size) as it was.
C5_NotifyBeforeDriverOkIsNoOp ==
  [][(Wrote(last', "QueueNotify")
        /\ ~HasBits(virtio_config.device_status, VIRTIO_CONFIG_S_DRIVER_OK))
       => device_config' = device_config]_vars

\* C5 witness: a QueueNotify write has been accepted with DRIVER_OK clear on
\* a device whose selector and interrupt-status have been set.
C5_Witness ==
  /\ Wrote(last, "QueueNotify") /\ last.res = "Ok"
  /\ ~HasBits(virtio_config.device_status, VIRTIO_CONFIG_S_DRIVER_OK)
  /\ virtio_config.queue_select # 0
  /\ virtio_config.interrupt_status # {}

\* C6: every 4-byte InterruptStatus read returns every bit that is set in the
\* interrupt-status bitmask, and an InterruptAck write of mask m clears
\* exactly the bits of m.
C6_InterruptStatusSticky ==
  [][/\ (Read(last', "InterruptStatus") /\ Len(last'.data) = 4)
          => virtio_config'.interrupt_status \subseteq BitsOfBytes(last'.out)
     /\ (Wrote(last', "InterruptAck") /\ Len(last'.data) >= 4)
          => virtio_config'.interrupt_status =
               virtio_config.interrupt_status \ BitsOf(u32_of(last'.data))]_vars

\* C7: the offered feature bitmask is the constructed one and has bit 32
\* (VERSION_1) set, and a 4-byte HostFeatures read made while the last
\* HostFeaturesSel write is 1 returns a value with bit 0 set.
C7_Version1Offered ==
  (Read(last, "HostFeatures") /\ Len(last.data) = 4 /\ host_sel_written = {1})
    => /\ virtio_config.device_features = VirtioNetConfig_new.virtio_config.device_features
       /\ 32 \in virtio_config.device_features
       /\ 0 \in BitsOfBytes(last.out)

\* C8: a 4-byte HostFeatures read returns bits 0..31 of the offered features
\* when the most recent HostFeaturesSel write is 0 and bits 32..63 when it is 1.
C8_HostFeaturesHalf ==
  (Read(last, "HostFeatures") /\ Len(last.data) = 4)
    => \A sel \in host_sel_written \cap {0, 1} : \A i \in 0..31 :
         (i \in BitsOfBytes(last.out))
           <=> (i + 32 * sel \in virtio_config.device_features)

\* C8 witness: HostFeatures has been read after 1 was written to
\* HostFeaturesSel and another selector was written in between.
C8_Witness ==
  /\ Read(last, "HostFeatures") /\ last.res = "Ok"
  /\ host_sel_written = {1}
  /\ guest_sel_written \notin {{}, {1}}

\* C9: a 4-byte GuestFeatures write of v stores v in the half of the accepted
\* features picked by the most recent GuestFeaturesSel write (0: bits 0..31,
\* 1: bits 32..63) and leaves the other half as it was.
C9_GuestFeaturesHalf ==
  [][(Wrote(last', "GuestFeatures") /\ Len(last'.data) = 4)
       => \A sel \in guest_sel_written \cap {0, 1} : \A i \in 0..31 :
            /\ (i + 32 * sel \in virtio_config'.driver_features)
                 <=> (i \in BitsOf(u32_of(last'.data)))
            /\ (i + 32 * (1 - sel) \in virtio_config'.driver_features)
                 <=> (i + 32 * (1 - sel) \in virtio_config.driver_features)]_vars

\* C10: a GuestFeatures write that repeats the write before it (same buffer,
\* so same selector state) leaves the device configuration, and with it the
\* accepted and the negotiated feature sets, as the first write left it.
C10_GuestFeaturesIdempotent ==
  [][(Wrote(last', "GuestFeatures") /\ last'.repeat)
       => /\ device_config' = device_config
          /\ (virtio_config'.driver_features \cap virtio_config'.device_features)
               = (virtio_config.driver_features \cap virtio_config.device_features)]_vars

\* C10 witness: the same non-zero 4-byte value has been written to
\* GuestFeatures twice in a row.
C10_Witness ==
  /\ Wrote(last, "GuestFeatures") /\ last.repeat
  /\ Len(last.data) = 4 /\ u32_of(last.data) # 0
  /\ last.res # "Panic"

\* registers whose write arm decodes four bytes / two bytes, and registers
\* whose read arm copies four bytes
FourByteWrites ==
  {"HostFeaturesSel", "GuestFeatures", "GuestFeaturesSel", "QueueSel", "QueuePfn",
   "QueueNotify", "InterruptAck", "Status"}
TwoByteWrites == {"GuestPageSize", "QueueNum"}
FourByteReads ==
  {"MagicValue", "VirtioVersion", "DeviceId", "VendorId", "HostFeatures",
   "QueueNumMax", "QueuePfn", "InterruptStatus", "Status"}
Malformed(acc) ==
  \/ acc.op = "write" /\ acc.offset.reg \in FourByteWrites /\ Len(acc.data) < 4
  \/ acc.op = "write" /\ acc.offset.reg \in TwoByteWrites /\ Len(acc.data) < 2
  \/ acc.op = "read" /\ acc.offset.reg \in FourByteReads /\ Len(acc.data) # 4

\* C11: a write with a buffer shorter than the field its register decodes, or
\* a read with a buffer that is not 4 bytes wide, ends in RegisterError,
\* leaves the device configuration as it was and does not abort the device.
C11_MalformedAccessIsNoOp ==
  [][Malformed(last')
       => /\ last'.res = "Err"
          /\ ~panicked'
          /\ device_config' = device_config]_vars

\* C12: a write to a register without write behaviour, or to any
\* DeviceSpecific offset, is rejected (RegisterError, or not dispatched at
\* all) without aborting, leaves the device configuration as it was, and the
\* config-space bytes stay those built at construction.
C12_ReadOnlyWriteIsRejected ==
  [][/\ (last'.op = "write" /\ last'.offset.reg \in ReadOnlyRegisters)
          => /\ last'.res \in {"Err", "Skipped"}
             /\ ~panicked'
             /\ device_config' = device_config
     /\ virtio_config'.config_space = ConfigLayout]_vars

\* C12 witness: a 4-byte non-zero write to a register without write behaviour
\* has been made on a device whose queue selector was set before.
C12_Witness ==
  /\ last.op = "write" /\ last.offset.reg \in ReadOnlyRegisters \ {"DeviceSpecific"}
  /\ Len(last.data) = 4 /\ u32_of(last.data) # 0
  /\ virtio_config.queue_select # 0

\* C13: a QueuePfn write of pfn that follows a QueueSel write of q in {0, 1},
\* on a device whose page size p was written before, succeeds and sets queue
\* q's descriptor-table address to pfn * p.
C13_QueuePfnScalesByPageSize ==
  [][(Wrote(last, "QueueSel") /\ Len(last.data) >= 4 /\ u32_of(last.data) \in {0, 1}
        /\ device_config.guest_page_size # 0
        /\ Wrote(last', "QueuePfn") /\ Len(last'.data) >= 4)
       => /\ last'.res = "Ok"
          /\ Len(virtio_config'.queues) > u32_of(last.data)
          /\ virtio_config'.queues[u32_of(last.data) + 1].desc_table
               = u32_of(last'.data) * device_config.guest_page_size]_vars

\* C14: the device holds exactly two virtqueues in every reachable state, and
\* a QueueNum write made with queue 0 or 1 selected sets that queue's size.
C14_TwoVirtqueues ==
  /\ Len(virtio_config.queues) = 2
  /\ (Wrote(last, "QueueNum") /\ Len(last.data) >= 2
        /\ virtio_config.queue_select \in {0, 1})
       => /\ last.res = "Ok"
          /\ virtio_config.queues[virtio_config.queue_select + 1].size
               = u16_of(last.data)

\* C15: whenever a QueueNum or QueuePfn write indexes the queues, the index
\* it uses (queue_select) is 0 or 1.
C15_QueueIndexInRange ==
  ((Wrote(last, "QueueNum") \/ (Wrote(last, "QueuePfn") /\ Len(last.data) >= 4))
     => virtio_config.queue_select \in {0, 1})

\* a power of two
IsPow2(n) == \E k \in 0..30 : n = Pow2(k)

\* C16: a 4-byte QueueNumMax read returns at most 256, and every queue's size
\* is a power of two no greater than 256.
C16_RingSizeBound ==
  /\ (Read(last, "QueueNumMax") /\ Len(last.data) = 4)
       => from_le_bytes(last.out) <= 256
  /\ \A q \in 1..Len(virtio_config.queues) :
       virtio_config.queues[q].size <= 256 /\ IsPow2(virtio_config.queues[q].size)

\* C17: a 4-byte read of MagicValue returns 76 69 72 74 ("virt", 0x74726976
\* little-endian), of VirtioVersion 2, of DeviceId 1, of VendorId 0x1AF4.
C17_IdentificationConstants ==
  /\ (Read(last, "MagicValue") /\ Len(last.data) = 4)
       => last.out = <<118, 105, 114, 116>>
  /\ (Read(last, "VirtioVersion") /\ Len(last.data) = 4)
       => last.out = <<2, 0, 0, 0>>
  /\ (Read(last, "DeviceId") /\ Len(last.data) = 4)
       => last.out = <<1, 0, 0, 0>>
  /\ (Read(last, "VendorId") /\ Len(last.data) = 4)
       => last.out = <<244, 26, 0, 0>>

\* C17 witness: VirtioVersion has been read with a 4-byte buffer that held
\* other bytes, after the queue selector was written.
C17_Witness ==
  /\ Read(last, "VirtioVersion") /\ last.data = <<255, 255, 255, 255>>
  /\ last.res = "Ok"
  /\ virtio_config.queue_select # 0

\* the device is Operational: the access before was a Status write that set
\* DRIVER_OK without FAILED
WroteDriverOk(acc) ==
  /\ Wrote(acc, "Status") /\ Len(acc.data) >= 4 /\ acc.res = "Ok"
  /\ HasBits(u32_of(acc.data), VIRTIO_CONFIG_S_DRIVER_OK)
  /\ ~HasBits(u32_of(acc.data), VIRTIO_CONFIG_S_FAILED)
\* a QueueNotify write naming the TX queue
NotifiedTx(acc) ==
  Wrote(acc, "QueueNotify") /\ Len(acc.data) >= 4 /\ u32_of(acc.data) = 1

\* C18: once the driver has set DRIVER_OK, a QueueNotify write naming queue 1
\* with one TX chain of bytes B available hands exactly B to the host network
\* descriptor and posts exactly one used-ring entry.
C18_TxNotifyTransmits ==
  [][(WroteDriverOk(last) /\ NotifiedTx(last') /\ Len(tx_avail) = 1)
       => /\ last'.res = "Ok"
          /\ host_tx' = Append(host_tx, tx_avail[1])
          /\ Len(tx_used') = Len(tx_used) + 1]_vars

\* C19: no lost wake-up: when the queue processing that a TX notification
\* starts in the Operational state returns, no TX chain the guest had made
\* available before the return is left unprocessed, however the guest's adds
\* interleave with the device's steps.
C19_NoLostWakeup ==
  [][(WroteDriverOk(last) /\ NotifiedTx(last'))
       => /\ tx_avail' = <<>>
          /\ Len(tx_used') = Len(tx_used) + Len(tx_avail)]_vars

\* C20: the entry count never exceeds the table's capacity; an add_e820_entry
\* call on a table with room writes addr/size/type into slot e820_entries and
\* raises the count by one; a call on a full table returns E820Configuration
\* and leaves table and count as they were.
C20_E820CountWithinCapacity ==
  [][/\ params'.e820_entries <= E820TableLen
     /\ last'.op = "add_e820_entry" =>
          IF params.e820_entries < E820TableLen
            THEN /\ last'.res = "Ok"
                 /\ params'.e820_entries = params.e820_entries + 1
                 /\ params'.e820_table[params.e820_entries + 1]
                      = e820_entry(last'.data[1], last'.data[2], last'.data[3])
                 /\ \A i \in 1..E820TableLen :
                      i # params.e820_entries + 1
                        => params'.e820_table[i] = params.e820_table[i]
            ELSE /\ last'.res = "E820Configuration"
                 /\ params' = params]_vars

\* C20 witness: add_e820_entry has been refused on a full table.
C20_Witness ==
  /\ last.op = "add_e820_entry" /\ last.res = "E820Configuration"
  /\ params.e820_entries = E820TableLen
  /\ params.e820_table[E820TableLen] # e820_entry(0, 0, 0)

====
